---- MODULE Spec2Model ----
(***************************************************************************)
(* icloud-downloader.py: mirror of an iCloud Drive tree and of iCloud      *)
(* Photos collections onto a local directory.  The model follows main(),   *)
(* download_node(), download_photo_asset() and _write_stream() statement   *)
(* by statement; the remote service (pyicloud) and the local filesystem    *)
(* are the environment.                                                    *)
(***************************************************************************)
EXTENDS Integers, Sequences, FiniteSets, TLC

VARIABLES
    args,      \* parsed command line (argparse namespace), fixed for a run
    drive,     \* api.drive: ordered children of the remote root
    photos,    \* api.photos: [all |-> assets, albums |-> name -> assets]
    dirs,      \* local filesystem: the set of directories (paths)
    files,     \* local filesystem: path -> bytes of each regular file
    pc,        \* position of main()
    todo,      \* pending calls of the current loop, innermost first
    cur,       \* the item being fetched: plan, stream and file handle
    out,       \* lines printed on stdout by this run (tag, path)
    errs,      \* lines printed on stderr by this run
    events,    \* progress lines printed by _write_stream for the current item
    nreq,      \* remote stream requests issued by this run
    written,   \* bytes handed to out.write by this run
    cause,     \* the exception that ended the run, if any
    run,       \* 1 for the first invocation, 2 for the one after it
    files0,    \* the local files before the first invocation
    last,      \* the fetch a failure interrupted in the first invocation,
               \* and the file it left
    account,   \* what the iCloud service answers to the login of this user
    dirsize,   \* the st_size the local filesystem reports for a directory
    tty        \* stdin and stdout of the process are a terminal

vars == <<args, drive, photos, dirs, files, pc, todo, cur, out, errs, events,
          nreq, written, cause, run, files0, last, account, dirsize, tty>>

----------------------------------------------------------------------------
(* Bounds of the model. *)

\* Largest remote content, in bytes.
MaxSize == 2
\* Largest number of bytes a pre-existing local file holds beyond MaxSize.
MaxExtra == 1
\* Largest number of bytes one chunk of the stream carries in the model.
MaxChunk == 2
\* Largest number of empty chunks one stream yields.
MaxEmpty == 1

(* Program constants. *)

\* max(expected_size // 20, 1_000_000)
ReportDivisor == 20
MinReportStep == 1000000

\* Python's None for an optional integer.
None == -1

----------------------------------------------------------------------------
(* Python values. *)

\* Truth value of an optional integer: None and 0 are falsy.
Truthy(v) == v # None /\ v # 0

\* a or b
PyOr(a, b) == IF Truthy(a) THEN a ELSE b

Max(a, b) == IF a >= b THEN a ELSE b

Take(s, k) == SubSeq(s, 1, k)
Drop(s, k) == SubSeq(s, k + 1, Len(s))

----------------------------------------------------------------------------
(* Paths and the local filesystem.  A path is the sequence of the          *)
(* components pathlib parses; an absolute path begins with "/", any other  *)
(* path is relative to the working directory <<>>.                         *)

\* PurePath.parent
Parent(p) == SubSeq(p, 1, Len(p) - 1)

\* p and all its ancestors
Prefixes(p) == {SubSeq(p, 1, k) : k \in 1..Len(p)}

\* The components pathlib parses from a name: one, unless the name holds a
\* separator or begins at the root.
Parts(name) ==
    CASE name = "x/y" -> <<"x", "y">>
      [] name = "../w" -> <<"..", "w">>
      [] name = "/o" -> <<"/", "o">>
      [] OTHER -> <<name>>

\* dest_path / name: an absolute name replaces the path
Join(p, name) ==
    IF Head(Parts(name)) = "/" THEN Parts(name) ELSE p \o Parts(name)

\* The place the operating system resolves a path to: ".." leaves the
\* directory before it (every ".." met here follows a directory that
\* exists, made by the mkdir before), and stays at the root.
RECURSIVE Real(_)
Real(p) ==
    IF p = <<>> THEN <<>>
    ELSE LET q == Real(Parent(p))
             n == p[Len(p)]
         IN  IF n # ".." THEN q \o <<n>>
             ELSE IF q = <<>> \/ q[Len(q)] = ".." THEN q \o <<n>>
             ELSE IF q = <<"/">> THEN q
             ELSE Parent(q)

\* Path.is_dir(): the working directory and the root are directories
IsDir(p) == Real(p) \in dirs \cup {<<>>, <<"/">>}

\* Path.exists()
Exists(p) == IsDir(p) \/ Real(p) \in DOMAIN files

\* st_size of a directory: it depends on the filesystem (4096 on ext4, 40
\* on tmpfs, 0 on ramfs), so it can be below, at or above the size of a
\* remote file.
DirSize == 4096
DirSizes == (0..(MaxSize + 1)) \cup {DirSize}

\* Path.stat().st_size: the length of a regular file, the size the
\* filesystem reports for a directory
StatSize(p) ==
    IF Real(p) \in DOMAIN files THEN Len(files[Real(p)]) ELSE dirsize

\* Path.mkdir(parents=True, exist_ok=True) succeeds unless a regular file
\* is in the way; it makes the missing ancestors first.
MkdirOk(p) == \A q \in Prefixes(p) : Real(q) \notin DOMAIN files
Mkdir(p) == dirs \cup ({Real(q) : q \in Prefixes(p)} \ {<<>>, <<"/">>})

\* The directories a failing mkdir(parents=True, exist_ok=True) can leave:
\* the ancestors are made one by one, so those before the component that
\* fails are there.
MkdirFails(p) ==
    {Mkdir(SubSeq(p, 1, j)) :
        j \in {i \in 0..(Len(p) - 1) : MkdirOk(SubSeq(p, 1, i))}}

\* open(p, mode) succeeds when p is no directory and its parent is one.
OpenOk(p) == ~IsDir(p) /\ IsDir(Parent(p))

Put(f, p, c) == [q \in DOMAIN f \cup {p} |-> IF q = p THEN c ELSE f[q]]

----------------------------------------------------------------------------
(* The remote service.  A drive node is a folder with ordered children or  *)
(* a file with an optional size; an asset carries an id, an optional       *)
(* filename and the "original" record of its versions.  The remote serves  *)
(* the content it reports: a known size is the length of the data.         *)

File(name, size, data) ==
    [name |-> name, type |-> "FILE", size |-> size, data |-> data,
     children |-> <<>>]

Folder(name, children) ==
    [name |-> name, type |-> "FOLDER", size |-> None, data |-> <<>>,
     children |-> children]

Asset(id, filename, orig, data) ==
    [id |-> id, filename |-> filename, orig |-> orig, data |-> data]

\* n bytes that identify their item and their position
Content(id, n) == [j \in 1..n |-> 16 * id + j]

\* k bytes no remote item holds
Stale(k) == [j \in 1..k |-> 255]

\* f"{asset.id}.bin"
BinName(id) == CASE id = "p1" -> "p1.bin" [] id = "p2" -> "p2.bin"

\* api.drive[target]: the first root child of that name; KeyError if none
DriveHas(target) == \E i \in 1..Len(drive) : drive[i].name = target
DriveLookup(target) ==
    drive[CHOOSE i \in 1..Len(drive) :
            /\ drive[i].name = target
            /\ \A j \in 1..(i - 1) : drive[j].name # target]

\* albums[album_name]; KeyError if none
AlbumHas(name) == name \in DOMAIN photos.albums
AlbumLookup(name) == photos.albums[name]

\* The bytes the remote streams for a request: all of the content, or the
\* content from the offset of a Range header "bytes=<offset>-".
Served(data, range) == IF range = None THEN data ELSE Drop(data, range)

----------------------------------------------------------------------------
(* Transfer decisions of download_node and download_photo_asset. *)

\* Variant of ExistingSize: the size of the local file is not read.
ExistingSizeZero(p) == 0

\* existing_size = dest_path.stat().st_size if dest_path.exists() else 0
ExistingSize(p) == IF Exists(p) THEN StatSize(p) ELSE 0

\* Variant of TotalSize: the attribute is never found.
TotalSizeAbsent(node) == None

\* getattr(node, "size", None)
TotalSize(node) == node.size

\* name = getattr(asset, "filename", None) or f"{asset.id}.bin"
\* (an absent filename and an empty one are both falsy: "" stands for both)
AssetName(asset) ==
    IF asset.filename # "" THEN asset.filename ELSE BinName(asset.id)

\* expected_size = original.get("size") or original.get("fileSize")
ExpectedSize(asset) == PyOr(asset.orig.size, asset.orig.fileSize)

\* Variant of NodeSkips: the sizes are compared with >= instead of ==.
NodeSkipsAtLeast(exists, existing_size, total_size) ==
    exists /\ total_size # None /\ existing_size >= total_size

\* if dest_path.exists() and total_size is not None
\*    and existing_size == total_size
NodeSkips(exists, existing_size, total_size) ==
    exists /\ total_size # None /\ existing_size = total_size

\* Variant of NodeResumes: the comparison of the sizes is left out.
NodeResumesAnySize(resume, exists, existing_size, total_size) ==
    resume /\ exists /\ Truthy(total_size)

\* if resume and dest_path.exists() and total_size
\*    and existing_size < total_size
NodeResumes(resume, exists, existing_size, total_size) ==
    resume /\ exists /\ Truthy(total_size) /\ existing_size < total_size

\* if dest_path.exists() and expected_size and existing_size == expected_size
AssetSkips(exists, existing_size, expected_size) ==
    exists /\ Truthy(expected_size) /\ existing_size = expected_size

\* if resume and dest_path.exists() and expected_size
\*    and existing_size < expected_size
AssetResumes(resume, exists, existing_size, expected_size) ==
    resume /\ exists /\ Truthy(expected_size) /\ existing_size < expected_size

\* Variant of RangeHeader: the range always starts at byte 0.
RangeHeaderZero(resumes, existing_size) == IF resumes THEN 0 ELSE None

\* headers["Range"] = f"bytes={existing_size}-": the offset, None for no header
RangeHeader(resumes, existing_size) == IF resumes THEN existing_size ELSE None

\* Variant of Mode: the mode is left at "wb" in the resume branch.
ModeTruncate(resumes) == "wb"

\* Variant of Mode: every file is opened in append mode.
ModeAppend(resumes) == "ab"

\* mode = "ab" in the resume branch, "wb" otherwise
Mode(resumes) == IF resumes THEN "ab" ELSE "wb"

\* the tag printed with the decision: [resume] or [get ]
Tag(resumes) == IF resumes THEN "resume" ELSE "get"

\* The decision of download_node: the tag it prints and the offset of the
\* Range header it sends, None for no header.
NodeDecision(resume, exists, existing_size, total_size) ==
    IF NodeSkips(exists, existing_size, total_size) THEN <<"skip", None>>
    ELSE LET resumes == NodeResumes(resume, exists, existing_size, total_size)
         IN  <<Tag(resumes), RangeHeader(resumes, existing_size)>>

\* The decision of download_photo_asset, likewise.
AssetDecision(resume, exists, existing_size, expected_size) ==
    IF AssetSkips(exists, existing_size, expected_size) THEN <<"skip", None>>
    ELSE LET resumes == AssetResumes(resume, exists, existing_size,
                                     expected_size)
         IN  <<Tag(resumes), RangeHeader(resumes, existing_size)>>

----------------------------------------------------------------------------
(* _write_stream: progress bookkeeping. *)

\* Variant of ReportStep: the test of show_progress is missing.
ReportStepAnyMode(show_progress, expected_size) ==
    IF Truthy(expected_size)
    THEN Max(expected_size \div ReportDivisor, MinReportStep)
    ELSE None

\* report_step = max(expected_size // 20, 1_000_000)
\*   if show_progress and expected_size, else None
ReportStep(show_progress, expected_size) ==
    IF show_progress /\ Truthy(expected_size)
    THEN Max(expected_size \div ReportDivisor, MinReportStep)
    ELSE None

\* next_report = start_size + report_step
NextReport(show_progress, expected_size, start_size) ==
    IF show_progress /\ Truthy(expected_size)
    THEN start_size + ReportStep(show_progress, expected_size)
    ELSE None

\* if report_step and bytes_written >= next_report
Reports(report_step, bytes_written, next_report) ==
    Truthy(report_step) /\ bytes_written >= next_report

----------------------------------------------------------------------------
(* The worlds a run starts in: command line, remote content, local files. *)

DestRoot == <<"dest">>
PhotosRoot == DestRoot \o <<"Photos">>

\* A remote file of id `id`: any length up to MaxSize, size reported or not.
RemoteFiles(id) ==
    UNION {{[size |-> s, data |-> Content(id, n)] : s \in {None, n}} :
              n \in 0..MaxSize}

\* The "original" records of an asset whose content has n bytes.
AssetOrigs(n) ==
    {[size |-> s, fileSize |-> f] : s \in {None, 0, n}, f \in {None, n}}

\* What a destination path holds before the run: nothing (<<>>), a prefix
\* of the remote content, or bytes of another origin.
LocalOptions(data) ==
    {<<>>} \cup {<<Take(data, k)>> : k \in 0..Len(data)}
           \cup {<<Stale(k)>> : k \in 1..(Len(data) + MaxExtra)}

FixedFile == [size |-> 2, data |-> Content(2, 2)]
FixedAsset == Asset("p2", "x.jpg", [size |-> 2, fileSize |-> None], Content(4, 2))

DriveOf(fb) ==
    << Folder("A", <<File("b", fb.size, fb.data)>>),
       File("c", FixedFile.size, FixedFile.data),
       Folder("E", <<>>) >>

PhotosOf(a1) ==
    [all    |-> <<a1, FixedAsset>>,
     albums |-> ("Trip" :> <<a1, FixedAsset>>),
     keys   |-> <<"Trip">>,
     titles |-> ("Trip" :> "Summer trip")]

DefaultAsset == Asset("p1", "", [size |-> 1, fileSize |-> None], Content(3, 1))

PathB == DestRoot \o <<"A", "b">>
PathC == DestRoot \o <<"c">>
PathP1 == PhotosRoot \o <<"p1.bin">>

\* Worlds in which the drive file A/b and its local copy vary.
DriveWorlds ==
    UNION {{[drive |-> DriveOf(fb), photos |-> PhotosOf(DefaultAsset),
             local |-> {<<PathB, lb>>, <<PathC, lc>>}] :
                lb \in LocalOptions(fb.data),
                lc \in {<<>>, <<Take(FixedFile.data, 1)>>}} :
              fb \in RemoteFiles(1)}

\* The assets p1 may be: any length up to MaxSize, any "original" record.
Assets1 ==
    UNION {{Asset("p1", "", o, Content(3, n)) : o \in AssetOrigs(n)} :
              n \in 0..MaxSize}

\* Worlds in which the asset p1 and its local copy vary.
PhotoWorlds ==
    UNION {{[drive |-> DriveOf(FixedFile), photos |-> PhotosOf(a1),
             local |-> {<<PathP1, lp>>}] : lp \in LocalOptions(a1.data)} :
              a1 \in Assets1}

\* A destination path that holds a directory before the run.
DirOption == << <<>>, <<>> >>

\* Worlds in which a directory stands where a file or an asset is to go.
DirWorlds ==
    {[drive |-> DriveOf(fb), photos |-> PhotosOf(DefaultAsset),
      local |-> {<<p, DirOption>>}] :
        fb \in {FixedFile, [size |-> 0, data |-> <<>>],
                [size |-> None, data |-> Content(1, 1)]},
        p \in {PathB, PathC, PathP1}}

\* Remote names that are not one path component.
OddNames == {"x/y", "../w", "/o"}

OddDrive(n) ==
    << Folder("A", <<Folder("B", <<File(n, 1, Content(1, 1))>>)>>),
       File("c", FixedFile.size, FixedFile.data) >>

\* Worlds in which a drive file and an asset have such a name.
OddWorlds ==
    {[drive |-> OddDrive(n),
      photos |-> PhotosOf(Asset("p1", n, [size |-> 1, fileSize |-> None],
                                Content(3, 1))),
      local |-> {}] : n \in OddNames}

Worlds == DriveWorlds \cup PhotoWorlds \cup DirWorlds \cup OddWorlds

\* The local files and directories of a world.
LocalFiles(local) ==
    [p \in {pr[1] : pr \in {q \in local : Len(q[2]) = 1}} |->
        (CHOOSE pr \in local : pr[1] = p)[2][1]]
LocalDirs(local) ==
    UNION {Prefixes(Parent(pr[1])) : pr \in {q \in local : Len(q[2]) > 0}}
    \cup {pr[1] : pr \in {q \in local : Len(q[2]) = 2}}

\* --cookie-dir: its default str(Path.home() / ".pyicloud"), a directory
\* under the destination, a path under a regular file.
CookieHome == <<"/", "home", ".pyicloud">>
CookieDirs == {CookieHome, DestRoot \o <<"cookies">>, PathC \o <<"k">>}

\* What the service answers to the login: the password is refused; the
\* session is accepted as it is; a 2FA code is asked for and refused; it
\* is accepted and the session is trusted, or is not and trust_session()
\* succeeds, or fails.
Accounts ==
    {"refused", "ok", "2fa_invalid", "2fa_trusted", "2fa_trust",
     "2fa_untrusted"}

ItemLists == {<<>>, <<"nope", "A", "c">>}
AlbumLists == {<<>>, <<"NoSuchAlbum", "Trip">>}

\* The namespace of parse_args, from the tuple of its values.
Args(t) ==
    [item |-> t[1], photos_all |-> t[2], photos_album |-> t[3],
     photos_list |-> t[4], photos_list_album |-> t[5],
     photos_list_albums |-> t[6], dest |-> t[7],
     resume |-> t[8], progress |-> t[9], cookie_dir |-> t[10]]

\* Download invocations: checked in every world.
DownloadArgs ==
    {Args(<<t[1], t[2], t[3], FALSE, <<>>, FALSE, DestRoot, t[4], FALSE,
            CookieHome>>) :
        t \in ItemLists \X BOOLEAN \X AlbumLists \X BOOLEAN}

\* Every combination of the flags: checked in one world.
AllArgs ==
    {Args(t) :
        t \in ItemLists \X BOOLEAN \X AlbumLists \X BOOLEAN \X AlbumLists
              \X BOOLEAN \X {<<>>, DestRoot} \X BOOLEAN \X BOOLEAN
              \X {CookieHome}}

\* Invocations that vary --cookie-dir: checked in one world, with every
\* answer of the service to the login.
LoginArgs ==
    {Args(<<<<>>, FALSE, <<>>, t[1], <<>>, FALSE, t[2], FALSE, FALSE, t[3]>>) :
        t \in BOOLEAN \X {<<>>, DestRoot} \X CookieDirs}

DefaultWorld ==
    [drive |-> DriveOf(FixedFile), photos |-> PhotosOf(DefaultAsset),
     local |-> {<<PathC, <<Take(FixedFile.data, 1)>> >>}]

Idle ==
    [st |-> "idle", kind |-> "", path |-> <<>>, item |-> File("", None, <<>>),
     expected |-> None, exists |-> FALSE, existing_size |-> 0,
     resume |-> FALSE, tag |-> "", range |-> None, mode |-> "",
     resp |-> <<>>, empties |-> 0, fh |-> FALSE, opened |-> FALSE,
     buf |-> <<>>,
     bytes_written |-> 0,
     report_step |-> None, next_report |-> None, pre |-> <<>>, nreq0 |-> 0]

Init ==
    /\ \E w \in Worlds \cup {DefaultWorld} :
          /\ args \in (IF w = DefaultWorld THEN AllArgs \cup LoginArgs
                       ELSE DownloadArgs)
          /\ account \in (IF w = DefaultWorld /\ args \in LoginArgs
                          THEN Accounts ELSE {"ok"})
          /\ dirsize \in (IF w \in DirWorlds THEN DirSizes ELSE {DirSize})
          /\ tty \in (IF w = DefaultWorld /\ args \in LoginArgs
                      THEN BOOLEAN ELSE {FALSE})
          /\ drive = w.drive
          /\ photos = w.photos
          /\ files = LocalFiles(w.local)
          /\ dirs = LocalDirs(w.local)
    /\ pc = "start"
    /\ todo = <<>>
    /\ cur = Idle
    /\ out = <<>>
    /\ errs = <<>>
    /\ events = <<>>
    /\ nreq = 0
    /\ written = 0
    /\ cause = "none"
    /\ run = 1
    /\ files0 = files
    /\ last = [fetch |-> Idle, left |-> <<>>]

----------------------------------------------------------------------------
(* main(): argument checks and the three phases. *)

\* Variant of RequiresDest: only the download flags are tested, the case of
\* no list flag is left out.
RequiresDestFlagged(a) ==
    \/ a.item # <<>>
    \/ a.photos_all
    \/ a.photos_album # <<>>

\* requires_dest = bool(args.item or args.photos_all or args.photos_album
\*     or not args.photos_list_albums and not args.photos_list
\*        and not args.photos_list_album)
RequiresDest(a) ==
    \/ a.item # <<>>
    \/ a.photos_all
    \/ a.photos_album # <<>>
    \/ (~a.photos_list_albums /\ ~a.photos_list /\ a.photos_list_album = <<>>)

\* has_drive_download = args.item or (dest_root and not (args.photos_all
\*     or args.photos_album or args.photos_list or args.photos_list_album
\*     or args.photos_list_albums))
HasDriveDownload(a) ==
    \/ a.item # <<>>
    \/ /\ a.dest # <<>>
       /\ ~(\/ a.photos_all
            \/ a.photos_album # <<>>
            \/ a.photos_list
            \/ a.photos_list_album # <<>>
            \/ a.photos_list_albums)

Frame(kind, item, path) == [kind |-> kind, item |-> item, path |-> path]

\* The calls of the drive loops: one lookup per target, or one
\* download_node per child of the root.
DriveFrames(a) ==
    IF ~HasDriveDownload(a) THEN <<>>
    ELSE IF a.item # <<>>
    THEN [i \in 1..Len(a.item) |-> Frame("target", a.item[i], <<>>)]
    ELSE [i \in 1..Len(drive) |->
            Frame("node", drive[i], Join(a.dest, drive[i].name))]

\* The calls of the photo loops: one download_photo_asset per asset of
\* api.photos.all, then one lookup per requested album.
AssetFrames(assets, dir) ==
    [i \in 1..Len(assets) |-> Frame("asset", assets[i], dir)]

PhotoFrames(a) ==
    (IF a.photos_all THEN AssetFrames(photos.all, Join(a.dest, "Photos"))
     ELSE <<>>)
    \o [i \in 1..Len(a.photos_album) |->
            Frame("album", a.photos_album[i], <<>>)]

\* asset_label(asset)
AssetLabel(asset) == IF asset.filename # "" THEN asset.filename ELSE asset.id

\* format_album_name(key, album): the title, with the key when they differ
FormatAlbumName(key, title) ==
    IF key # title THEN <<title, key>> ELSE <<title>>

Line(tag, path) == [tag |-> tag, path |-> path]

Labels(assets) ==
    [i \in 1..Len(assets) |-> Line("list", <<AssetLabel(assets[i])>>)]

RECURSIVE AlbumListing(_)
AlbumListing(names) ==
    IF names = <<>> THEN <<>>
    ELSE (IF AlbumHas(Head(names))
          THEN <<Line("Listing album", <<Head(names)>>)>>
                   \o Labels(AlbumLookup(Head(names)))
          ELSE <<>>)
         \o AlbumListing(Tail(names))

\* The lines of the listing block: each listing under its heading.
Listing(a) ==
    (IF a.photos_list
     THEN <<Line("Listing all iCloud Photos:", <<>>)>> \o Labels(photos.all)
     ELSE <<>>)
    \o AlbumListing(a.photos_list_album)
    \o (IF a.photos_list_albums
        THEN <<Line("Listing all iCloud Photos albums:", <<>>)>>
             \o [i \in 1..Len(photos.keys) |->
                   Line("albums",
                        FormatAlbumName(photos.keys[i],
                                        photos.titles[photos.keys[i]]))]
        ELSE <<>>)

\* The heading main() prints before the drive loop it enters, if any.
DriveHeading(a) ==
    IF ~HasDriveDownload(a) THEN <<>>
    ELSE IF a.item # <<>>
    THEN <<Line("Downloading specified items", <<>>)>>
    ELSE <<Line("Listing iCloud Drive root", <<>>)>>

\* The heading main() prints before the loop over api.photos.all.
PhotosHeading(a) ==
    IF a.photos_all
    THEN <<Line("Downloading all iCloud Photos", <<>>)>>
    ELSE <<>>

Missing(names) ==
    LET miss == SelectSeq(names, LAMBDA n : ~AlbumHas(n))
    IN  [i \in 1..Len(miss) |-> Line("Album not found", <<miss[i]>>)]

Returned == {"idle", "skipped", "done"}

\* Variant of Abort: the exception is swallowed and the run goes on.
AbortSwallowed(exc) ==
    /\ pc' = pc
    /\ cause' = exc

\* The run ends with an uncaught exception.
Abort(exc) ==
    /\ pc' = "aborted"
    /\ cause' = exc

\* sys.exit(1): --dest is required and absent.
StartNoDest ==
    /\ pc = "start"
    /\ RequiresDest(args) /\ args.dest = <<>>
    /\ pc' = "exit1"
    /\ errs' = Append(errs, Line("--dest is required", <<>>))
    /\ UNCHANGED <<args, drive, photos, dirs, files, todo, cur, out, events,
                   nreq, written, cause, run, files0, last, account, dirsize, tty>>

\* The service asks for a 2FA code.
Requires2fa(acct) ==
    acct \in {"2fa_invalid", "2fa_trusted", "2fa_trust", "2fa_untrusted"}

\* The prompt of input(): written to stderr when stdin and stdout are a
\* terminal, to stdout otherwise.
Prompt == <<Line("Enter the 2FA code sent to your device: ", <<>>)>>

\* What login() prints on stdout and on stderr, by the answer of the
\* service.  The password is given by --password or ICLOUD_PWD.
LoginOut(acct, terminal) ==
    (IF Requires2fa(acct)
     THEN <<Line("Two-factor authentication required.", <<>>)>>
          \o (IF terminal THEN <<>> ELSE Prompt)
     ELSE <<>>)
    \o (IF acct \in {"2fa_trust", "2fa_untrusted"}
        THEN <<Line("Session not trusted", <<>>)>>
        ELSE <<>>)
LoginErrs(acct, terminal) ==
    (IF Requires2fa(acct) /\ terminal THEN Prompt ELSE <<>>)
    \o (CASE acct = "refused" -> <<Line("Login failed", <<>>)>>
          [] acct = "2fa_invalid" -> <<Line("Invalid 2FA code.", <<>>)>>
          [] acct = "2fa_untrusted" ->
                <<Line("Failed to trust session", <<>>)>>
          [] OTHER -> <<>>)

\* login() ends in sys.exit(1)
LoginExits(acct) == acct \in {"refused", "2fa_invalid"}

\* The --dest check has passed and both mkdir can succeed.
Started ==
    /\ pc = "start"
    /\ ~(RequiresDest(args) /\ args.dest = <<>>)
    /\ MkdirOk(args.cookie_dir)
    /\ args.dest # <<>> => MkdirOk(args.dest)

\* cookie_dir.mkdir(parents=True, exist_ok=True); if dest_root:
\* dest_root.mkdir(parents=True, exist_ok=True)
StartDirs ==
    Mkdir(args.cookie_dir)
        \cup (IF args.dest # <<>> THEN Mkdir(args.dest) ELSE {})

\* The two mkdir, then login() returns the session and the drive loops
\* begin, under their heading.
Start ==
    /\ Started
    /\ ~LoginExits(account)
    /\ dirs' = StartDirs
    /\ out' = out \o LoginOut(account, tty) \o DriveHeading(args)
    /\ errs' = errs \o LoginErrs(account, tty)
    /\ todo' = DriveFrames(args)
    /\ pc' = "drive"
    /\ UNCHANGED <<args, drive, photos, files, cur, events, nreq,
                   written, cause, run, files0, last, account, dirsize, tty>>

\* The two mkdir, then login() ends the run: the password or the 2FA code
\* is refused, sys.exit(1).
LoginFail ==
    /\ Started
    /\ LoginExits(account)
    /\ dirs' = StartDirs
    /\ out' = out \o LoginOut(account, tty)
    /\ errs' = errs \o LoginErrs(account, tty)
    /\ pc' = "exit1"
    /\ UNCHANGED <<args, drive, photos, files, todo, cur, events, nreq,
                   written, cause, run, files0, last, account, dirsize, tty>>

\* The listing block, then the photo loops begin, the loop over
\* api.photos.all under its heading.
ListPhase ==
    /\ pc = "drive" /\ todo = <<>> /\ cur.st \in Returned
    /\ out' = out \o Listing(args) \o PhotosHeading(args)
    /\ errs' = errs \o Missing(args.photos_list_album)
    /\ todo' = PhotoFrames(args)
    /\ pc' = "photos"
    /\ UNCHANGED <<args, drive, photos, dirs, files, cur, events, nreq,
                   written, cause, run, files0, last, account, dirsize, tty>>

\* print("Done.")
Done ==
    /\ pc = "photos" /\ todo = <<>> /\ cur.st \in Returned
    /\ out' = Append(out, Line("Done.", <<>>))
    /\ pc' = "done"
    /\ UNCHANGED <<args, drive, photos, dirs, files, todo, cur, errs, events,
                   nreq, written, cause, run, files0, last, account, dirsize, tty>>

----------------------------------------------------------------------------
(* The loops of main(): lookups of requested items and albums. *)

\* Variant of OnMiss: break instead of continue.
OnMissBreak(pending) == <<>>

\* except KeyError: print(...); continue
OnMiss(pending) == Tail(pending)

Busy == pc \in {"drive", "photos"} /\ todo # <<>> /\ cur.st \in Returned
Top == Head(todo)

\* node = api.drive[target]; on KeyError: print, continue;
\* else download_node(node, dest_root / target, ...)
LookupTarget ==
    /\ Busy /\ Top.kind = "target"
    /\ IF DriveHas(Top.item)
       THEN /\ todo' = <<Frame("node", DriveLookup(Top.item),
                               Join(args.dest, Top.item))>> \o Tail(todo)
            /\ errs' = errs
       ELSE /\ todo' = OnMiss(todo)
            /\ errs' = Append(errs, Line("Not found in iCloud Drive",
                                         <<Top.item>>))
    /\ UNCHANGED <<args, drive, photos, dirs, files, pc, cur, out, events,
                   nreq, written, cause, run, files0, last, account, dirsize, tty>>

\* album = albums[album_name]; on KeyError: print, continue;
\* else download_photo_asset(asset, photos_root / album_name, ...) for each
LookupAlbum ==
    /\ Busy /\ Top.kind = "album"
    /\ IF AlbumHas(Top.item)
       THEN /\ todo' = AssetFrames(AlbumLookup(Top.item),
                                   Join(Join(args.dest, "Photos"),
                                        Top.item))
                         \o Tail(todo)
            /\ out' = Append(out, Line("Downloading album", <<Top.item>>))
            /\ errs' = errs
       ELSE /\ todo' = OnMiss(todo)
            /\ out' = out
            /\ errs' = Append(errs, Line("Album not found", <<Top.item>>))
    /\ UNCHANGED <<args, drive, photos, dirs, files, pc, cur, events, nreq,
                   written, cause, run, files0, last, account, dirsize, tty>>

----------------------------------------------------------------------------
(* download_node and download_photo_asset up to the decision. *)

\* dest_path / child.name
ChildPath(dest_path, child) == Join(dest_path, child.name)

\* download_node on a folder: mkdir, then one call per child, in order.
FolderNode ==
    /\ Busy /\ Top.kind = "node" /\ Top.item.type = "FOLDER"
    /\ MkdirOk(Top.path)
    /\ dirs' = Mkdir(Top.path)
    /\ todo' = [i \in 1..Len(Top.item.children) |->
                   Frame("node", Top.item.children[i],
                         ChildPath(Top.path, Top.item.children[i]))]
               \o Tail(todo)
    /\ UNCHANGED <<args, drive, photos, files, pc, cur, out, errs, events,
                   nreq, written, cause, run, files0, last, account, dirsize, tty>>

\* Variant of PlanState: the return after the [skip] line is missing.
PlanStateNoReturn(skips) == "planned"

\* print("[skip] ..."); return -- or the fetch goes on to the request
PlanState(skips) == IF skips THEN "skipped" ELSE "planned"

\* The local variables of a fetch once the decision is taken.  A skip
\* returns at once; otherwise headers and mode are set for the request.
Plan(kind, p, item, expected, exists, existing, skips, resumes) ==
    [st |-> PlanState(skips),
     kind |-> kind, path |-> p, item |-> item, expected |-> expected,
     exists |-> exists, existing_size |-> existing, resume |-> args.resume,
     tag |-> IF skips THEN "skip" ELSE Tag(resumes),
     range |-> IF skips THEN None ELSE RangeHeader(resumes, existing),
     mode |-> IF skips THEN "" ELSE Mode(resumes),
     resp |-> <<>>, empties |-> 0, fh |-> FALSE, opened |-> FALSE,
     buf |-> <<>>,
     bytes_written |-> 0,
     report_step |-> None, next_report |-> None,
     pre |-> IF Real(p) \in DOMAIN files THEN files[Real(p)] ELSE <<>>,
     nreq0 |-> nreq]

\* The directory download_node and download_photo_asset make first: the
\* folder itself, the parent of a file, the directory of the assets.
PlanDir(f) ==
    IF f.kind = "node" /\ f.item.type # "FOLDER" THEN Parent(f.path)
    ELSE f.path

\* The path download_node and download_photo_asset then look at with
\* exists() and stat().
PlanPath(f) ==
    IF f.kind = "asset" THEN Join(f.path, AssetName(f.item)) ELSE f.path

\* download_node on a file, up to the [skip] / [resume] / [get ] line.
PlanNode ==
    /\ Busy /\ Top.kind = "node" /\ Top.item.type # "FOLDER"
    /\ MkdirOk(PlanDir(Top))
    /\ dirs' = Mkdir(PlanDir(Top))
    /\ LET p == PlanPath(Top)
           exists == Exists(p)
           existing_size == ExistingSize(p)
           total_size == TotalSize(Top.item)
           skips == NodeSkips(exists, existing_size, total_size)
           resumes == NodeResumes(args.resume, exists, existing_size,
                                  total_size)
       IN  /\ cur' = Plan("node", p, Top.item, total_size, exists,
                          existing_size, skips, resumes)
           /\ out' = Append(out, Line(cur'.tag, p))
           /\ todo' = IF cur'.st = "skipped" THEN Tail(todo) ELSE todo
    /\ UNCHANGED <<args, drive, photos, files, pc, errs, events, nreq,
                   written, cause, run, files0, last, account, dirsize, tty>>

\* download_photo_asset up to the [skip] / [resume] / [get ] line.
PlanAsset ==
    /\ Busy /\ Top.kind = "asset"
    /\ MkdirOk(PlanDir(Top))
    /\ dirs' = Mkdir(PlanDir(Top))
    /\ LET p == PlanPath(Top)
           expected_size == ExpectedSize(Top.item)
           exists == Exists(p)
           existing_size == ExistingSize(p)
           skips == AssetSkips(exists, existing_size, expected_size)
           resumes == AssetResumes(args.resume, exists, existing_size,
                                   expected_size)
       IN  /\ cur' = Plan("asset", p, Top.item, expected_size, exists,
                          existing_size, skips, resumes)
           /\ out' = Append(out, Line(cur'.tag, p))
           /\ todo' = IF cur'.st = "skipped" THEN Tail(todo) ELSE todo
    /\ UNCHANGED <<args, drive, photos, files, pc, errs, events, nreq,
                   written, cause, run, files0, last, account, dirsize, tty>>

\* mkdir raises OSError, the ancestors it made before are left: nothing
\* catches it.
PlanFail ==
    /\ Busy /\ Top.kind \in {"node", "asset"}
    /\ dirs' \in MkdirFails(PlanDir(Top))
    /\ Abort("IOError")
    /\ UNCHANGED <<args, drive, photos, files, todo, cur, out, errs,
                   events, nreq, written, run, files0, last, account, dirsize, tty>>

\* The directory is made, then exists() or stat() on the destination
\* raises OSError before any line is printed: nothing catches it.
StatFail ==
    /\ Busy /\ Top.kind \in {"node", "asset"}
    /\ Top.kind = "node" => Top.item.type # "FOLDER"
    /\ MkdirOk(PlanDir(Top))
    /\ dirs' = Mkdir(PlanDir(Top))
    /\ Abort("IOError")
    /\ UNCHANGED <<args, drive, photos, files, todo, cur, out, errs,
                   events, nreq, written, run, files0, last, account, dirsize, tty>>

----------------------------------------------------------------------------
(* The request and _write_stream. *)

\* open(dest_path, mode): "wb" truncates or creates, "ab" keeps or creates
Opened(f, p, mode) ==
    IF mode = "ab" /\ Real(p) \in DOMAIN f THEN f ELSE Put(f, Real(p), <<>>)

\* node.open(stream=True, headers=headers) / asset.download(headers=headers)
OpenStream ==
    /\ cur.st = "planned"
    /\ nreq' = nreq + 1
    /\ cur' = [cur EXCEPT !.st = "opened",
                          !.resp = Served(cur.item.data, cur.range)]
    /\ UNCHANGED <<args, drive, photos, dirs, files, pc, todo, out, errs,
                   events, written, cause, run, files0, last, account, dirsize, tty>>

\* Variant of OpenStreamFail: the destination is opened before the request
\* is made.
OpenStreamFailOpened ==
    /\ cur.st = "planned"
    /\ nreq' = nreq + 1
    /\ files' = Opened(files, cur.path, cur.mode)
    /\ cur' = [cur EXCEPT !.st = "failed"]
    /\ Abort("TransferError")
    /\ UNCHANGED <<args, drive, photos, dirs, todo, out, errs, events,
                   written, run, files0, last, account, dirsize, tty>>

\* The request raises: nothing catches it.
OpenStreamFail ==
    /\ cur.st = "planned"
    /\ nreq' = nreq + 1
    /\ cur' = [cur EXCEPT !.st = "failed"]
    /\ Abort("TransferError")
    /\ UNCHANGED <<args, drive, photos, dirs, files, todo, out, errs, events,
                   written, run, files0, last, account, dirsize, tty>>

\* _write_stream up to the open: bytes_written, report_step, next_report,
\* then open(dest_path, mode).
OpenDest ==
    /\ cur.st = "opened"
    /\ OpenOk(cur.path)
    /\ files' = Opened(files, cur.path, cur.mode)
    /\ cur' = [cur EXCEPT
                 !.st = "writing",
                 !.fh = TRUE,
                 !.opened = TRUE,
                 !.bytes_written = cur.existing_size,
                 !.report_step = ReportStep(args.progress, cur.expected),
                 !.next_report = NextReport(args.progress, cur.expected,
                                            cur.existing_size)]
    /\ events' = <<>>
    /\ UNCHANGED <<args, drive, photos, dirs, pc, todo, out, errs, nreq,
                   written, cause, run, files0, last, account, dirsize, tty>>

\* open raises OSError: nothing catches it.
OpenDestFail ==
    /\ cur.st = "opened"
    /\ cur' = [cur EXCEPT !.st = "failed"]
    /\ Abort("IOError")
    /\ UNCHANGED <<args, drive, photos, dirs, files, todo, out, errs, events,
                   nreq, written, run, files0, last, account, dirsize, tty>>

\* bytes_written += len(chunk); if report_step and bytes_written >=
\* next_report: ...; next_report += report_step -- the counters of
\* _write_stream after a chunk of n bytes.
AfterChunk(c, n) ==
    LET bytes_written == c.bytes_written + n
    IN  [c EXCEPT
           !.bytes_written = bytes_written,
           !.next_report =
               IF Reports(c.report_step, bytes_written, c.next_report)
               THEN @ + c.report_step ELSE @]

\* The progress lines printed so far, after a chunk of n bytes: one more
\* line, with bytes_written and expected_size, when the report is due.
EventsAfter(c, ev, n) ==
    LET bytes_written == c.bytes_written + n
    IN  IF Reports(c.report_step, bytes_written, c.next_report)
        THEN Append(ev, [bytes_written |-> bytes_written,
                         expected_size |-> c.expected])
        ELSE ev

\* The buffer of the file object open() returns, in bytes: what out.write
\* is given stays in it while it fits.
BufSize == 1

\* BufferedWriter.write(chunk) on a file object holding buf: the bytes that
\* reach the file and the bytes that stay in the buffer.  A chunk that fits
\* in the room left is only copied; otherwise the buffer is flushed, then
\* the chunk is written through if it is larger than the buffer and copied
\* to the buffer if not.
Fits(buf, chunk) == Len(chunk) <= BufSize - Len(buf)

\* The number of bytes a chunk written through can leave to the buffer:
\* none when the file takes all of it; when it takes only part (a short
\* write) the writing goes on while more than a buffer is left, and what
\* is left then is copied to the buffer.
ShortWrites(buf, chunk) ==
    IF ~Fits(buf, chunk) /\ Len(chunk) > BufSize THEN 0..BufSize ELSE {0}

\* The bytes that reach the file and the bytes that stay in the buffer,
\* when left bytes of a chunk written through are left to the buffer.
Flushed(buf, chunk, left) ==
    IF Fits(buf, chunk) THEN <<>>
    ELSE IF Len(chunk) > BufSize
         THEN buf \o Take(chunk, Len(chunk) - left)
    ELSE buf
Buffered(buf, chunk, left) ==
    IF Fits(buf, chunk) THEN buf \o chunk
    ELSE IF Len(chunk) > BufSize THEN Drop(chunk, Len(chunk) - left)
    ELSE chunk

\* One non-empty chunk: out.write(chunk); bytes_written += len(chunk);
\* a progress line when the next report is reached.
WriteChunk ==
    /\ cur.st = "writing"
    /\ \E n \in 1..MaxChunk :
          /\ n <= Len(cur.resp)
          /\ LET chunk == Take(cur.resp, n)
             IN  /\ \E left \in ShortWrites(cur.buf, chunk) :
                       /\ files' = [files EXCEPT ![Real(cur.path)] =
                                       @ \o Flushed(cur.buf, chunk, left)]
                       /\ cur' = [AfterChunk(cur, Len(chunk)) EXCEPT
                                    !.resp = Drop(cur.resp, n),
                                    !.buf = Buffered(cur.buf, chunk, left)]
                 /\ written' = written + Len(chunk)
                 /\ events' = EventsAfter(cur, events, Len(chunk))
    /\ UNCHANGED <<args, drive, photos, dirs, pc, todo, out, errs, nreq,
                   cause, run, files0, last, account, dirsize, tty>>

\* if not chunk: continue
EmptyChunk ==
    /\ cur.st = "writing"
    /\ cur.empties < MaxEmpty
    /\ cur' = [cur EXCEPT !.empties = @ + 1]
    /\ UNCHANGED <<args, drive, photos, dirs, files, pc, todo, out, errs,
                   events, nreq, written, cause, run, files0, last, account, dirsize, tty>>

\* The stream is exhausted: the with block flushes the buffer and closes
\* the file, and the fetch returns.
EndStream ==
    /\ cur.st = "writing"
    /\ cur.resp = <<>>
    /\ files' = [files EXCEPT ![Real(cur.path)] = @ \o cur.buf]
    /\ cur' = [cur EXCEPT !.st = "done", !.fh = FALSE, !.buf = <<>>]
    /\ todo' = Tail(todo)
    /\ UNCHANGED <<args, drive, photos, dirs, pc, out, errs, events,
                   nreq, written, cause, run, files0, last, account, dirsize, tty>>

\* Variant of StreamFail: the failure is caught around the item and the
\* loop goes on with the next one.
StreamFailCaught ==
    /\ cur.st = "writing"
    /\ files' = [files EXCEPT ![Real(cur.path)] = @ \o cur.buf]
    /\ cur' = [cur EXCEPT !.st = "done", !.fh = FALSE, !.buf = <<>>]
    /\ cause' = "TransferError"
    /\ todo' = Tail(todo)
    /\ UNCHANGED <<args, drive, photos, dirs, pc, out, errs, events,
                   nreq, written, run, files0, last, account, dirsize, tty>>

\* iter_content raises mid-stream: the with block flushes the buffer and
\* closes the file, nothing catches the exception.
StreamFail ==
    /\ cur.st = "writing"
    /\ files' = [files EXCEPT ![Real(cur.path)] = @ \o cur.buf]
    /\ cur' = [cur EXCEPT !.st = "failed", !.fh = FALSE, !.buf = <<>>]
    /\ Abort("TransferError")
    /\ UNCHANGED <<args, drive, photos, dirs, todo, out, errs, events,
                   nreq, written, run, files0, last, account, dirsize, tty>>

\* What a failing out.write(chunk) can leave in the file of the buffer and
\* the chunk: the flush of the buffer stopped short (the close that follows
\* may write the rest of the buffer), or the buffer went out and the
\* writing of the chunk stopped while more than a buffer of it was left.
WriteFailKeeps(buf, chunk) ==
    {Take(buf, k) : k \in 0..(IF buf = <<>> THEN -1 ELSE Len(buf))}
    \cup {buf \o Take(chunk, j) : j \in 0..(Len(chunk) - BufSize - 1)}

\* Variant of WriteFail: the file is opened without a with block, so the
\* exception leaves it open.
WriteFailLeaks ==
    /\ cur.st = "writing"
    /\ \E n \in 1..MaxChunk :
          /\ n <= Len(cur.resp)
          /\ ~Fits(cur.buf, Take(cur.resp, n))
          /\ \E kept \in WriteFailKeeps(cur.buf, Take(cur.resp, n)) :
                files' = [files EXCEPT ![Real(cur.path)] = @ \o kept]
    /\ cur' = [cur EXCEPT !.st = "failed", !.buf = <<>>]
    /\ Abort("IOError")
    /\ UNCHANGED <<args, drive, photos, dirs, todo, out, errs, events,
                   nreq, written, run, files0, last, account, dirsize, tty>>

\* out.write(chunk) raises OSError, which it can only when the chunk does
\* not fit in the buffer: bytes_written is not advanced, the with block
\* closes the file, nothing catches the exception.
WriteFail ==
    /\ cur.st = "writing"
    /\ \E n \in 1..MaxChunk :
          /\ n <= Len(cur.resp)
          /\ ~Fits(cur.buf, Take(cur.resp, n))
          /\ \E kept \in WriteFailKeeps(cur.buf, Take(cur.resp, n)) :
                files' = [files EXCEPT ![Real(cur.path)] = @ \o kept]
    /\ cur' = [cur EXCEPT !.st = "failed", !.fh = FALSE, !.buf = <<>>]
    /\ Abort("IOError")
    /\ UNCHANGED <<args, drive, photos, dirs, todo, out, errs, events,
                   nreq, written, run, files0, last, account, dirsize, tty>>

\* The close at the end of the with block raises OSError while it flushes
\* the buffer, after the stream is exhausted or has failed: part of the
\* buffer reaches the file, bytes_written has counted all of it, the file
\* is closed, nothing catches the exception.
CloseFail ==
    /\ cur.st = "writing"
    /\ cur.buf # <<>>
    /\ \E k \in 0..(Len(cur.buf) - 1) :
          files' = [files EXCEPT ![Real(cur.path)] = @ \o Take(cur.buf, k)]
    /\ cur' = [cur EXCEPT !.st = "failed", !.fh = FALSE, !.buf = <<>>]
    /\ Abort("IOError")
    /\ UNCHANGED <<args, drive, photos, dirs, todo, out, errs, events,
                   nreq, written, run, files0, last, account, dirsize, tty>>

\* cookie_dir.mkdir raises OSError, with or without --dest: nothing
\* catches it.
CookieDirFail ==
    /\ pc = "start"
    /\ ~(RequiresDest(args) /\ args.dest = <<>>)
    /\ dirs' \in MkdirFails(args.cookie_dir)
    /\ Abort("IOError")
    /\ UNCHANGED <<args, drive, photos, files, todo, cur, out, errs,
                   events, nreq, written, run, files0, last, account, dirsize, tty>>

\* dest_root.mkdir raises OSError after cookie_dir was made, before the
\* login.
StartFail ==
    /\ pc = "start"
    /\ ~(RequiresDest(args) /\ args.dest = <<>>)
    /\ args.dest # <<>>
    /\ MkdirOk(args.cookie_dir)
    /\ dirs' \in {Mkdir(args.cookie_dir) \cup d : d \in MkdirFails(args.dest)}
    /\ Abort("IOError")
    /\ UNCHANGED <<args, drive, photos, files, todo, cur, out, errs,
                   events, nreq, written, run, files0, last, account, dirsize, tty>>

\* The same command is run again on what the first run left.
Rerun ==
    /\ pc = "done" /\ run = 1
    /\ run' = 2
    /\ pc' = "start"
    /\ cur' = Idle
    /\ out' = <<>> /\ errs' = <<>> /\ events' = <<>>
    /\ nreq' = 0 /\ written' = 0
    /\ UNCHANGED <<args, drive, photos, dirs, files, todo, cause, files0, last, account, dirsize, tty>>

----------------------------------------------------------------------------

Next ==
    \/ StartNoDest
    \/ Start
    \/ LoginFail
    \/ CookieDirFail
    \/ StartFail
    \/ LookupTarget
    \/ FolderNode
    \/ PlanNode
    \/ LookupAlbum
    \/ PlanAsset
    \/ PlanFail
    \/ StatFail
    \/ OpenStream
    \/ OpenStreamFail
    \/ OpenDest
    \/ OpenDestFail
    \/ WriteChunk
    \/ EmptyChunk
    \/ EndStream
    \/ StreamFail
    \/ WriteFail
    \/ CloseFail
    \/ ListPhase
    \/ Done

Spec == Init /\ [][Next]_vars

\* Two invocations in succession.
SpecTwice == Init /\ [][Next \/ Rerun]_vars

\* A stream failure has ended the run in the middle of a transfer.
MidStream == pc = "aborted" /\ cause = "TransferError" /\ cur.opened

\* The command is run again, with --resume, on what a run that ended with
\* status 1 has left.
Retry ==
    /\ pc \in {"aborted", "exit1"} /\ run = 1
    /\ last' = IF MidStream
                   THEN [fetch |-> cur, left |-> files[Real(cur.path)]]
                   ELSE [fetch |-> Idle, left |-> <<>>]
    /\ args' = [args EXCEPT !.resume = TRUE]
    /\ run' = 2
    /\ pc' = "start"
    /\ todo' = <<>>
    /\ cur' = Idle
    /\ out' = <<>> /\ errs' = <<>> /\ events' = <<>>
    /\ nreq' = 0 /\ written' = 0
    /\ cause' = "none"
    /\ UNCHANGED <<drive, photos, dirs, files, files0, account, dirsize, tty>>

\* The steps of a run that downloads whole libraries to a destination,
\* and the run that follows a failure.
NextRetry ==
    \/ Start
    \/ LoginFail
    \/ CookieDirFail
    \/ StartFail
    \/ FolderNode
    \/ PlanNode
    \/ PlanAsset
    \/ PlanFail
    \/ StatFail
    \/ OpenStream
    \/ OpenStreamFail
    \/ OpenDest
    \/ OpenDestFail
    \/ WriteChunk
    \/ EmptyChunk
    \/ EndStream
    \/ StreamFail
    \/ WriteFail
    \/ CloseFail
    \/ ListPhase
    \/ Done
    \/ Retry

\* The download of the whole drive, with or without the whole photo
\* library, to a destination.
InitRetry ==
    /\ Init
    /\ args.item = <<>> /\ args.photos_album = <<>>
    /\ args.dest # <<>>
    /\ ~args.photos_list /\ ~args.photos_list_albums
    /\ args.photos_list_album = <<>>

\* A run that fails, then the same command with --resume.
SpecRetry == InitRetry /\ [][NextRetry]_vars

\* The exit status of the process, None while it runs.
ExitStatus ==
    CASE pc = "done" -> 0
      [] pc \in {"exit1", "aborted"} -> 1
      [] OTHER -> None

----------------------------------------------------------------------------
(* Properties. *)

\* The file dest_path names.
Dest == Real(cur.path)

\* Something is at the destination: a regular file or a directory.
DestExists == Dest \in DOMAIN files \cup dirs

\* The size of what the destination held when the decision was taken: the
\* length of the file, or what the filesystem reports for a directory.
LocalSize == IF Dest \in dirs THEN dirsize ELSE Len(cur.pre)

\* The size of what the destination holds now.
DestSize == IF Dest \in dirs THEN dirsize ELSE Len(files[Dest])

\* The fetch under way, or the last one, went past the skip test.
Fetching == cur.st \in {"planned", "opened", "writing", "done", "failed"}

\* The decision is Resume: a Range header is set or the mode is append.
ResumeTaken == Fetching /\ (cur.range # None \/ cur.mode = "ab")

\* C1 as stated: Resume is taken only when resume is enabled, the expected
\* size is known and 0 < existingLocalSize < expectedSize, and the offset is
\* existingLocalSize.
C1_ResumeOnlyNonEmpty ==
    ResumeTaken =>
        /\ args.resume
        /\ cur.expected # None
        /\ 0 < Len(cur.pre) /\ Len(cur.pre) < cur.expected
        /\ cur.range = Len(cur.pre)

\* C1 amended: Resume is taken only when resume is enabled, the destination
\* exists, the expected size is known and 0 <= existingLocalSize <
\* expectedSize (an existing empty file is resumed at offset 0), and the
\* offset is existingLocalSize.
C1_ResumeOnlyPartial ==
    ResumeTaken =>
        /\ args.resume
        /\ DestExists
        /\ cur.exists
        /\ cur.expected # None
        /\ 0 <= LocalSize /\ LocalSize < cur.expected
        /\ cur.range = LocalSize

\* A partial file of one byte is resumed at offset 1.
C1_Witness ==
    /\ ResumeTaken /\ cur.st = "done"
    /\ cur.kind = "node" /\ cur.range = 1 /\ cur.expected = 2

\* C2: an item is skipped only when its expected size is known and the
\* destination file exists with exactly that size; an item of unknown size
\* is never skipped.
C2_SkipOnlySameSize ==
    cur.tag = "skip" =>
        /\ cur.expected # None
        /\ DestExists
        /\ DestSize = cur.expected
        /\ (IF cur.kind = "node" THEN cur.item.size
            ELSE ExpectedSize(cur.item)) = cur.expected

\* A file node is skipped.
C2_Witness ==
    cur.tag = "skip" /\ cur.kind = "node" /\ cur.expected = Len(cur.pre)

\* C3 as stated: a stream failure aborts only its item, so the run never
\* stops on one while other calls of the loop are still pending.
C3_StreamFailureSkipsItem ==
    ~(pc = "aborted" /\ cause = "TransferError" /\ Len(todo) > 1)

\* C3 amended: a stream failure (on open or mid-stream) is not caught: the
\* step that raises it ends the run, and no step follows it.
C3_StreamFailureEndsRun ==
    [][/\ cause # "TransferError"
       /\ cause' = "TransferError" => pc' = "aborted" /\ cur'.st = "failed"]_vars

\* A stream failed after a first chunk was written, with items pending.
C3_Witness ==
    /\ pc = "aborted" /\ cause = "TransferError"
    /\ Len(todo) > 1
    /\ Dest \in DOMAIN files /\ Len(files[Dest]) = 1
    /\ written = 1

\* C4: with resume enabled and a local file of k < expectedSize bytes, a
\* transfer that completes leaves the first k bytes as they were and a
\* file of expectedSize bytes.
C4_ResumeKeepsPrefix ==
    (/\ cur.st = "done"
     /\ args.resume
     /\ cur.expected # None
     /\ Len(cur.pre) < cur.expected)
    => /\ Take(files[Dest], Len(cur.pre)) = cur.pre
       /\ Len(files[Dest]) = cur.expected

\* An asset whose local file held one byte of another origin is completed.
C4_Witness ==
    /\ cur.st = "done" /\ args.resume /\ cur.kind = "asset"
    /\ cur.pre = Stale(1) /\ cur.expected = 2
    /\ files[Dest] = Stale(1) \o Drop(cur.item.data, 1)

\* The remote reports a size the fetcher reads as known: any size of a
\* file node, a non-zero size of an asset.
ReportsSize(kind, item) ==
    IF kind = "node" THEN item.size # None
    ELSE Truthy(item.orig.size) \/ Truthy(item.orig.fileSize)

\* C5 as stated: the second of two runs writes no byte and reports every
\* item as Skip.
C5_SecondRunSkipsAll ==
    (run = 2 /\ pc = "done") =>
        /\ written = 0
        /\ \A i \in DOMAIN out : out[i].tag \notin {"get", "resume"}

\* C5 amended: in the second of two runs every item whose size the remote
\* reports (for an asset: a non-zero size) is skipped and no byte of it is
\* written; the items of unknown size are fetched again from byte 0.
C5_SecondRunSkipsKnownSizes ==
    (run = 2 /\ cur.st # "idle") =>
        IF ReportsSize(cur.kind, cur.item)
        THEN /\ cur.tag = "skip"
             /\ DestExists
             /\ Dest \in DOMAIN files => files[Dest] = cur.pre
             /\ LocalSize = Len(cur.item.data)
        ELSE cur.tag = "get"

\* The second run skips an item the first run downloaded.
C5_Witness ==
    /\ run = 2 /\ pc = "done" /\ written = 0
    /\ cur.tag = "skip" /\ Len(cur.item.data) = 2
    /\ Dest \notin DOMAIN files0

\* The resume test of the fetcher, on the values the fetch read.
ResumeDecided ==
    IF cur.kind = "node"
    THEN NodeResumes(args.resume, cur.exists, cur.existing_size, cur.expected)
    ELSE AssetResumes(args.resume, cur.exists, cur.existing_size, cur.expected)

\* C6: for every item that is not skipped, the request carries the header
\* Range: bytes=<existing size>- exactly when the decision is Resume, and
\* the destination is opened in append mode exactly when the decision is
\* Resume, in truncate mode otherwise.
C6_RangeIffAppend ==
    Fetching =>
        /\ (cur.range # None) <=> ResumeDecided
        /\ (cur.mode = "ab") <=> ResumeDecided
        /\ (cur.mode = "wb") <=> ~ResumeDecided
        /\ cur.range # None => cur.range = LocalSize

\* An asset is being written in append mode after a ranged request.
C6_Witness ==
    /\ cur.st = "writing" /\ cur.kind = "asset"
    /\ cur.range = 1 /\ cur.mode = "ab" /\ nreq = cur.nreq0 + 1

\* C7: after a Skip decision no stream is requested and the destination is
\* neither opened nor modified.
C7_SkipTouchesNothing ==
    cur.tag = "skip" =>
        /\ nreq = cur.nreq0
        /\ ~cur.fh
        /\ cur.resp = <<>>
        /\ DestExists
        /\ Dest \in DOMAIN files => files[Dest] = cur.pre

\* An item is skipped after the same run downloaded another one.
C7_Witness ==
    /\ cur.tag = "skip" /\ cur.st = "skipped"
    /\ nreq > 0 /\ written > 0

\* The files (path, bytes) and the directories of a remote tree placed
\* under base.
RECURSIVE TreeFiles(_, _)
TreeFiles(nodes, base) ==
    UNION {IF nodes[i].type = "FOLDER"
           THEN TreeFiles(nodes[i].children, base \o <<nodes[i].name>>)
           ELSE {<<base \o <<nodes[i].name>>, nodes[i].data>>} :
              i \in 1..Len(nodes)}

RECURSIVE TreeDirs(_, _)
TreeDirs(nodes, base) ==
    UNION {IF nodes[i].type = "FOLDER"
           THEN {base \o <<nodes[i].name>>}
                    \cup TreeDirs(nodes[i].children, base \o <<nodes[i].name>>)
           ELSE {} :
              i \in 1..Len(nodes)}

\* The remote nodes the drive loops are asked for.
Requested ==
    IF args.item # <<>>
    THEN LET found == SelectSeq(args.item, DriveHas)
         IN  [i \in 1..Len(found) |-> DriveLookup(found[i])]
    ELSE drive

UnderDest(p) == Len(p) >= 1 /\ p[1] = DestRoot[1]
UnderPhotos(p) == Len(p) >= 2 /\ p[2] = "Photos"

\* C8: after a failure-free drive download into an empty destination the
\* local tree mirrors the remote one: a directory for every folder, a file
\* with exactly the bytes served for every file, and no other file.
C8_TreeMirrored ==
    (/\ pc \in {"photos", "done"}
     /\ DOMAIN files0 = {}
     /\ HasDriveDownload(args))
    => LET tf == TreeFiles(Requested, DestRoot)
       IN  /\ {p \in DOMAIN files : ~UnderPhotos(p)} = {t[1] : t \in tf}
           /\ \A t \in tf : files[t[1]] = t[2]
           /\ {d \in dirs : UnderDest(d) /\ ~UnderPhotos(d)}
                 = {DestRoot} \cup TreeDirs(Requested, DestRoot)

Lines(s) == {s[i] : i \in DOMAIN s}

\* The destination paths the walker hands to the files of a remote tree.
RECURSIVE TreePaths(_, _)
TreePaths(nodes, base) ==
    UNION {IF nodes[i].type = "FOLDER"
           THEN TreePaths(nodes[i].children, ChildPath(base, nodes[i]))
           ELSE {ChildPath(base, nodes[i])} :
              i \in 1..Len(nodes)}

\* The paths the run printed a decision for.
Decided == {l.path : l \in {m \in Lines(out) : m.tag \in {"skip", "get", "resume"}}}

\* A request that was not found is logged on stderr.
MissLogged ==
    \E l \in Lines(errs) :
        l.tag \in {"Not found in iCloud Drive", "Album not found"}

\* C9: a requested item or album that does not exist remotely is reported
\* on stderr and only that request is dropped: the run goes on, and at its
\* normal end every other requested item and album was processed and the
\* exit status is 0.
C9_MissSkipsOnlyThatRequest ==
    /\ (cause = "none" /\ MissLogged /\ args.dest # <<>>)
           => pc \in {"drive", "photos", "done"}
    /\ pc = "done" =>
        /\ ExitStatus = 0
        /\ \A i \in DOMAIN args.item :
              IF DriveHas(args.item[i])
              THEN \A t \in TreePaths(<<DriveLookup(args.item[i])>>, DestRoot) :
                      t \in Decided
              ELSE Line("Not found in iCloud Drive", <<args.item[i]>>)
                      \in Lines(errs)
        /\ \A i \in DOMAIN args.photos_album :
              IF AlbumHas(args.photos_album[i])
              THEN \A j \in DOMAIN AlbumLookup(args.photos_album[i]) :
                      Join(Join(PhotosRoot, args.photos_album[i]),
                           AssetName(AlbumLookup(args.photos_album[i])[j]))
                          \in Decided
              ELSE Line("Album not found", <<args.photos_album[i]>>)
                      \in Lines(errs)

\* A run with a missing item and a missing album reached "Done." after
\* processing the requests that follow them.
C9_Witness ==
    /\ pc = "done"
    /\ Line("Not found in iCloud Drive", <<"nope">>) \in Lines(errs)
    /\ Line("Album not found", <<"NoSuchAlbum">>) \in Lines(errs)
    /\ PathC \in Decided
    /\ (PhotosRoot \o <<"Trip", "x.jpg">>) \in Decided

\* C10: a local filesystem failure is neither retried nor recovered: the
\* step that raises it ends the run, and no step follows it.
C10_LocalFailureEndsRun ==
    [][/\ cause # "IOError"
       /\ cause' = "IOError" => pc' = "aborted"]_vars

\* A write failed after a first chunk, with items pending.
C10_Witness ==
    /\ pc = "aborted" /\ cause = "IOError"
    /\ Len(todo) > 1
    /\ cur.st = "failed" /\ written = 1 /\ cur.resp # <<>>

----------------------------------------------------------------------------
(* _write_stream on transfers of real size.  The bytes themselves are not
   kept here, only their counts: the stream of an item of `length` bytes is
   cut into chunks of at most ChunkSize bytes, and the destination file is
   known by its length. *)

\* resp.iter_content(chunk_size=1024 * 1024)
ChunkSize == 1048576

\* A chunk shorter than the chunk size, as a stream may yield at any time.
ShortChunk == 960000

\* Largest number of short chunks one stream yields before its last chunk.
MaxShort == 1

\* The length of a partial local file.
PartialLen == 1000000

\* Lengths of the remote content.
StreamLengths == {0, 3000000, 50000000}

\* What the local destination holds: nothing (None), or a file of this
\* length -- empty, partial, complete, or longer than the content.
LocalLens(length) == {None, 0, PartialLen, length, length + 1}

StreamPath == DestRoot \o <<"f">>

\* The item of the transfer: a drive file or a photo asset, its size
\* reported or not, with the length of its content.
StreamItem(kind, reported, length) ==
    IF kind = "node"
    THEN [name |-> "f", type |-> "FILE", size |-> reported, data |-> <<>>,
          children |-> <<>>, length |-> length]
    ELSE [id |-> "p1", filename |-> "f",
          orig |-> [size |-> reported, fileSize |-> None], data |-> <<>>,
          length |-> length]

StreamArgs ==
    {Args(<<<<>>, FALSE, <<>>, FALSE, <<>>, FALSE, DestRoot, t[1], t[2],
            CookieHome>>) :
        t \in BOOLEAN \X BOOLEAN}

\* The fetch of one item, its decision taken by download_node or
\* download_photo_asset from the size reported and the local file.
InitStream ==
    /\ args \in StreamArgs
    /\ drive = DefaultWorld.drive
    /\ photos = DefaultWorld.photos
    /\ files = LocalFiles({})
    /\ dirs = Prefixes(DestRoot)
    /\ pc = "stream"
    /\ todo = <<>>
    /\ nreq = 0
    /\ \E kind \in {"node", "asset"}, length \in StreamLengths,
          known \in BOOLEAN :
          \E local \in LocalLens(length) :
             LET item == StreamItem(kind, IF known THEN length ELSE None,
                                    length)
                 expected == IF kind = "node" THEN TotalSize(item)
                             ELSE ExpectedSize(item)
                 exists == local # None
                 existing_size == IF exists THEN local ELSE 0
                 skips == IF kind = "node"
                          THEN NodeSkips(exists, existing_size, expected)
                          ELSE AssetSkips(exists, existing_size, expected)
                 resumes == IF kind = "node"
                            THEN NodeResumes(args.resume, exists,
                                             existing_size, expected)
                            ELSE AssetResumes(args.resume, exists,
                                              existing_size, expected)
             IN  cur = [shorts |-> 0]
                         @@ Plan(kind, StreamPath, item, expected, exists,
                                 existing_size, skips, resumes)
    /\ out = <<Line(cur.tag, StreamPath)>>
    /\ errs = <<>>
    /\ events = <<>>
    /\ written = 0
    /\ cause = "none"
    /\ run = 1
    /\ files0 = files
    /\ last = [fetch |-> Idle, left |-> <<>>]
    /\ account = "ok"
    /\ dirsize = DirSize
    /\ tty = FALSE

\* The number of bytes the remote streams for the request: all of the
\* content, or the content from the offset of the Range header.
ServedLen(c) ==
    IF c.range = None THEN c.item.length
    ELSE Max(c.item.length - c.range, 0)

\* The length of the destination file: what open(dest_path, mode) kept of
\* it, and the bytes written since, once the file is closed.
FileLen(c) == (IF c.mode = "ab" THEN c.existing_size ELSE 0) + written

\* One non-empty chunk of n bytes: out.write(chunk); bytes_written +=
\* len(chunk); a progress line when the next report is reached.  A chunk
\* is full, or short, or the rest of the stream.
StreamChunk ==
    /\ cur.st = "writing"
    /\ written < ServedLen(cur)
    /\ \E short \in (IF cur.shorts < MaxShort THEN BOOLEAN ELSE {FALSE}) :
          LET left == ServedLen(cur) - written
              size == IF short THEN ShortChunk ELSE ChunkSize
              n == IF size < left THEN size ELSE left
          IN  /\ written' = written + n
              /\ cur' = [AfterChunk(cur, n) EXCEPT
                           !.shorts = IF short THEN @ + 1 ELSE @]
              /\ events' = EventsAfter(cur, events, n)
    /\ UNCHANGED <<args, drive, photos, dirs, files, pc, todo, out, errs,
                   nreq, cause, run, files0, last, account, dirsize, tty>>

\* The stream is exhausted: the file is closed and the fetch returns.
StreamEnd ==
    /\ cur.st = "writing"
    /\ written = ServedLen(cur)
    /\ cur' = [cur EXCEPT !.st = "done", !.fh = FALSE]
    /\ UNCHANGED <<args, drive, photos, dirs, files, pc, todo, out, errs,
                   events, nreq, written, cause, run, files0, last, account, dirsize, tty>>

NextStream ==
    \/ OpenStream
    \/ OpenDest
    \/ StreamChunk
    \/ EmptyChunk
    \/ StreamEnd

\* One transfer of real size, from the decision to the end of the stream.
SpecStream == InitStream /\ [][NextStream]_vars

\* C11: with progress enabled and a known expected size, a transfer prints
\* at most 20 progress lines, their bytes_written never decrease, and the
\* last one does not exceed the expected size.
C11_ProgressCadence ==
    (args.progress /\ Truthy(cur.expected)) =>
        /\ Len(events) <= ReportDivisor
        /\ \A i, j \in 1..Len(events) :
              i <= j => events[i].bytes_written <= events[j].bytes_written
        /\ events # <<>> =>
              events[Len(events)].bytes_written <= cur.expected

\* C12: the handle of the destination file is open only while the loop of
\* _write_stream runs: it is closed once the stream is exhausted, once the
\* stream has failed and once a write has failed, so no handle is open
\* when the next item is fetched or when the run has ended.
C12_HandleClosedOnExit ==
    /\ cur.fh => (cur.st = "writing" /\ pc \in {"drive", "photos"})
    /\ cur.st \in {"done", "failed"} => ~cur.fh

\* A write has failed after a chunk went to the file, and the file is
\* closed.
C12_Witness ==
    /\ pc = "aborted" /\ cause = "IOError"
    /\ cur.st = "failed" /\ ~cur.fh
    /\ cur.bytes_written > cur.existing_size

\* C13: no progress line is printed when progress is disabled or when the
\* expected size is unknown or zero, whatever chunks the stream yields; so
\* every line printed has a positive expected size to divide by.
C13_NoProgressWhenOff ==
    /\ (~args.progress \/ ~Truthy(cur.expected)) => events = <<>>
    /\ \A i \in 1..Len(events) : events[i].expected_size > 0

\* A transfer of more bytes than the smallest report step has ended
\* without a progress line: progress was off or the size unknown.
C13_Witness ==
    /\ cur.st = "done"
    /\ ~args.progress \/ ~Truthy(cur.expected)
    /\ written >= MinReportStep
    /\ events = <<>>

\* The cases in which an item is neither skipped nor resumed: its size is
\* unknown, the destination is absent, resume is disabled and the local
\* file is partial, or the local file is longer than expected.
FreshCase ==
    \/ cur.expected = None
    \/ ~cur.exists
    \/ (~args.resume /\ cur.exists /\ cur.expected # None
        /\ Len(cur.pre) < cur.expected)
    \/ (cur.exists /\ cur.expected # None /\ Len(cur.pre) > cur.expected)

\* C14: an item in one of those cases is fetched Fresh, and so is every
\* item that is neither skipped nor resumed: the request has no Range
\* header, the destination is opened in truncate mode, the file and the
\* buffer of its handle hold at every moment of the transfer exactly the
\* bytes served so far, and after a transfer without failure the file
\* holds exactly the bytes served, with nothing of what it held before.
C14_FreshRewritesFromZero ==
    /\ (Fetching /\ FreshCase) => cur.tag = "get"
    /\ (Fetching /\ cur.tag = "get") =>
          /\ cur.range = None /\ cur.mode = "wb"
          /\ cur.st = "opened" => cur.resp = cur.item.data
          /\ cur.st = "writing"
                => files[Dest] \o cur.buf \o cur.resp = cur.item.data
          /\ cur.st = "done" => files[Dest] = cur.item.data

\* A Fresh transfer has ended over a file that held other bytes, longer
\* than the content.
C14_Witness ==
    /\ cur.st = "done" /\ cur.tag = "get"
    /\ cur.expected # None /\ Len(cur.pre) > cur.expected
    /\ cur.item.data # <<>>
    /\ files[Dest] = cur.item.data

\* s is the beginning of t
IsPrefix(s, t) == Len(s) <= Len(t) /\ s = Take(t, Len(s))

\* A stream failure has ended the run, on an item whose size is known.
Interrupted ==
    /\ pc = "aborted" /\ cause = "TransferError"
    /\ cur.st = "failed" /\ cur.opened
    /\ ReportsSize(cur.kind, cur.item)

\* The run with --resume has come to the item the first run failed on.
Retried ==
    /\ run = 2 /\ cur.st # "idle"
    /\ last.fetch.st = "failed"
    /\ cur.path = last.fetch.path
    /\ ReportsSize(cur.kind, cur.item)

\* C15 as stated: after a stream failure on an item of known size the file
\* left is a prefix of the remote content, of at most expectedSize bytes;
\* the run with --resume that follows resumes at the size of that file, or
\* skips the item if the file is complete; and if its stream does not fail
\* the file ends equal to the remote content.
C15_RetryYieldsContent ==
    /\ Interrupted =>
          /\ IsPrefix(files[Dest], cur.item.data)
          /\ Len(files[Dest]) <= cur.expected
    /\ Retried =>
          \/ cur.tag = "resume" /\ cur.range = Len(last.left)
          \/ cur.tag = "skip" /\ Len(last.left) = cur.expected
    /\ (Retried /\ cur.st = "done") => files[Dest] = cur.item.data

\* C15 amended: after a stream failure on an item of known size the file
\* left has at most expectedSize bytes: the bytes it held before if the
\* transfer was a Resume, then bytes of the stream; it is a prefix of the
\* remote content if the transfer was Fresh or the file held a prefix
\* before.  The run with --resume that follows resumes at the size of that
\* file, or skips the item if the file has expectedSize bytes; if its
\* stream does not fail the file ends with expectedSize bytes, equal to
\* the remote content if the file left was a prefix of it.
C15_RetryCompletesSize ==
    /\ Interrupted =>
          /\ Len(files[Dest]) <= cur.expected
          /\ \E k \in 0..Len(cur.item.data) :
                files[Dest] =
                    (IF cur.tag = "resume" THEN cur.pre ELSE <<>>)
                    \o Take(Served(cur.item.data, cur.range), k)
          /\ (cur.tag = "get" \/ IsPrefix(cur.pre, cur.item.data))
                => IsPrefix(files[Dest], cur.item.data)
    /\ Retried =>
          /\ cur.pre = last.left
          /\ \/ cur.tag = "resume" /\ cur.range = Len(last.left)
             \/ cur.tag = "skip" /\ Len(last.left) = cur.expected
    /\ (Retried /\ cur.st = "done") =>
          /\ Len(files[Dest]) = cur.expected
          /\ IsPrefix(last.left, cur.item.data)
                => files[Dest] = cur.item.data

\* A Fresh transfer of two bytes failed after the first; the run with
\* --resume has resumed at offset 1 and the file holds the content.
C15_Witness ==
    /\ Retried /\ cur.st = "done"
    /\ last.fetch.tag = "get" /\ Len(last.left) = 1
    /\ cur.tag = "resume" /\ cur.range = 1
    /\ files[Dest] = cur.item.data

\* C16: at the end of _write_stream (and so at the last progress line)
\* bytes_written is the number of bytes the destination file holds, in
\* append mode and in truncate mode, a truncated existing file included.
C16_CountMatchesFile ==
    cur.st = "done" => cur.bytes_written = Len(files[Dest])

\* C17 as stated: on the values a fetch has read -- resume flag, presence
\* and size of the destination, expected size unknown, zero or positive --
\* download_node and download_photo_asset take the same decision, with
\* the same offset.
C17_SameDecision ==
    NodeDecision(args.resume, cur.exists, cur.existing_size, cur.expected)
        = AssetDecision(args.resume, cur.exists, cur.existing_size,
                        cur.expected)

\* C18: when the request for the stream fails before a stream is returned,
\* the destination is as it was: an existing file is not truncated, an
\* absent one is not created, and no directory is made.
C18_FailedRequestKeepsFile ==
    [][(cur.st = "planned" /\ cur'.st = "failed") =>
          /\ files' = files
          /\ dirs' = dirs
          /\ (Dest \in DOMAIN files' \cup dirs' <=> cur.exists)
          /\ (Dest \in DOMAIN files => files'[Dest] = cur.pre)]_vars

\* The request of a Fresh transfer has failed and the file the destination
\* held, bytes of another origin that the transfer would have truncated,
\* is intact.
C18_Witness ==
    /\ pc = "aborted" /\ cause = "TransferError"
    /\ cur.st = "failed" /\ cur.mode = "wb"
    /\ cur.pre # <<>> /\ ~IsPrefix(cur.pre, cur.item.data)
    /\ files[Dest] = cur.pre

\* C19: with progress enabled and a known expected size, once a chunk has
\* been processed the next report threshold is strictly greater than the
\* bytes written so far, for every sequence of chunks of at most 1 MiB.
C19_ThresholdAhead ==
    (cur.st \in {"writing", "done"} /\ Truthy(cur.report_step)) =>
        cur.next_report > cur.bytes_written

\* The flags select a download: of requested items, of the photo library,
\* of requested albums, or -- no flag at all -- of the whole drive.
DownloadSelected(a) ==
    \/ a.item # <<>>
    \/ a.photos_all
    \/ a.photos_album # <<>>
    \/ (~a.photos_list /\ a.photos_list_album = <<>>
        /\ ~a.photos_list_albums)

\* The run has started a download: a call is pending or was made, a
\* stream was requested or a byte written.
Downloading ==
    todo # <<>> \/ cur.st # "idle" \/ nreq > 0 \/ written > 0

\* The run has ended at the --dest check.
DestRefused ==
    pc = "exit1" /\ Line("--dest is required", <<>>) \in Lines(errs)

\* C20: for every combination of the flags and of --dest, the run demands
\* a destination exactly when the flags select a download: it exits for
\* lack of --dest only then, it goes no further than the check when a
\* download is selected without --dest, it performs a download when one is
\* selected with --dest, no download starts without a destination root,
\* and a list-only invocation is never refused.
C20_DestIffDownload ==
    /\ RequiresDest(args) <=> DownloadSelected(args)
    /\ DestRefused => (args.dest = <<>> /\ DownloadSelected(args))
    /\ (args.dest = <<>> /\ DownloadSelected(args))
          => (pc \in {"start", "exit1"} /\ ~Downloading)
    /\ (args.dest # <<>> /\ DownloadSelected(args))
          => (DriveFrames(args) # <<>> \/ PhotoFrames(args) # <<>>)
    /\ Downloading => args.dest # <<>>
    /\ (~DownloadSelected(args) /\ pc \in {"photos", "done"})
          => (~Downloading /\ files = files0)

\* A list-only invocation without --dest has printed its listing and ended
\* normally, no file touched.
C20_Witness ==
    /\ pc = "done" /\ args.dest = <<>>
    /\ args.photos_list /\ out # <<Line("Done.", <<>>)>>
    /\ nreq = 0 /\ files = files0

====
